---- MODULE Spec2Model ----
(***************************************************************************)
(* Model of the WinDV capture bridge (WinDVCaptureBridge.cpp): the         *)
(* WinDVCaptureEngine session object, the control-surface calls made by    *)
(* caller threads, the capture (consumer) thread and the hardware frame    *)
(* callback (producer).                                                    *)
(*                                                                         *)
(* Granularity.  One step is one access to state that another thread can   *)
(* observe: m_state and the collaborator pointers are read without the     *)
(* mutex by the capture thread and by the frame callback, so every lock    *)
(* acquisition, every unlocked read and every queue operation is a step.   *)
(* A run of statements executed under m_mutex that no lock-free reader     *)
(* can tell apart is one step.                                             *)
(*                                                                         *)
(* CDVQueue, CDVInput, CMonitor and CAVIWriter are declared in DShow.h,    *)
(* whose implementation is not among the sources; the queue is modelled    *)
(* from its documented contract (blocking bounded FIFO).                   *)
(***************************************************************************)
EXTENDS Integers, Sequences, FiniteSets, TLC

\* ---------------------------------------------------------------- bounds
NumCallers == 2
MaxThreads == 2
MaxFrames == 2
MaxQueueSize == 2
MaxPathLen == 5

\* ------------------------------------------------------ program constants
DefaultQueueSize == 120

Callers == 1..NumCallers
ThreadIds == 1..MaxThreads
\* The sentinel entry Put(-1, nullptr, 0): a null payload.
Sentinel == 0
NoFrame == -1
NoThread == 0
NoOwner == 0
\* A caller's copy of m_captureThread whose CWinThread object has been deleted.
Dangling == MaxThreads + 1

Sep == {"\\", "/"}
OutputDirs == {<<"a">>}
DeviceNames == {<<>>, <<"d">>}
Hwnds == {0, 1}

\* WindvCaptureOptions values the callers pass (WinDVCaptureBridge.h).
OptionValues ==
    [output_directory : OutputDirs, file_base_name : {<<"f">>},
     enable_preview : BOOLEAN, queue_size : 1..MaxQueueSize]

\* Error messages (the text is immaterial; each SetError site has its own).
ErrCoInit == "CoInitializeEx fehlgeschlagen."
ErrDeviceBusy == "Geraet kann waehrend einer laufenden Aufnahme nicht geaendert werden."
ErrPreviewBusy == "Preview-Fenster kann waehrend einer laufenden Aufnahme nicht gewechselt werden."
ErrDirectory == "Verzeichnis konnte nicht erstellt werden."
ErrNoDevice == "Kein DirectShow-Geraet konfiguriert."
ErrAlreadyRunning == "Aufnahme laeuft bereits."
ErrThread == "Capture-Thread konnte nicht gestartet werden."
ErrConstruct == "Fehler beim Starten der Aufnahme."
ErrNullDevice == "Device-Name darf nicht leer sein."

VARIABLES
    m_state,          \* std::atomic<State>
    m_mutex,          \* owner of m_mutex (a caller) or NoOwner
    m_comInitialized,
    m_deviceAnsi,     \* configured device name
    m_previewWindow,
    m_dvInput,        \* "null", "ready" (constructed) or "running" (after Run)
    m_monitor,        \* TRUE iff the pointer is non-null
    m_writer,
    m_queue,
    m_captureThread,  \* a thread id or NoThread
    m_options,        \* NormalizedOptions of the last successful construction
    m_lastError,
    queue,            \* entries of the CDVQueue object m_queue points to
    qcap,             \* its capacity
    dirs,             \* directories that exist in the file system
    pc,               \* per caller: position in the current call
    call,             \* per caller: the control-surface call in progress
    res,              \* per caller: result of the call ("ok", "fail", "exception")
    local,            \* per caller: locals of the call
    cpc,              \* per capture thread: position
    cframe,           \* per capture thread: the entry Get returned
    cload,            \* per capture thread: m_load when the entry was fanned out
    produced,         \* frames the source has delivered so far
    enqueued,         \* frames put into the current queue object, in order
    writerLog,        \* frames the current writer received, in order
    monitorLog,       \* frames the current preview renderer received, in order
    halted            \* the process died (access violation)

engineVars == <<m_state, m_mutex, m_comInitialized, m_deviceAnsi, m_previewWindow,
                m_dvInput, m_monitor, m_writer, m_queue, m_captureThread,
                m_options, m_lastError>>
callerVars == <<pc, call, res, local>>
threadVars == <<cpc, cframe, cload>>
dataVars == <<queue, qcap, produced, enqueued, writerLog, monitorLog>>
vars == <<engineVars, callerVars, threadVars, dataVars, dirs, halted>>

\* ------------------------------------------------------------ pure helpers

\* CStringA(wide): characters outside the ANSI code page become '?'.
WideToAnsi(s) == [i \in 1..Len(s) |-> IF s[i] = "U" THEN "?" ELSE s[i]]

\* AnsiToWide(value): every character of an ANSI string has its wide
\* counterpart ('?' stays '?': what WideToAnsi lost is not restored).
AnsiToWide(s) == [i \in 1..Len(s) |-> s[i]]

NoOptions == [basePath |-> <<>>, enablePreview |-> TRUE, queueSize |-> DefaultQueueSize]

Normalize(options) ==
    LET dir == options.output_directory
        withSep == IF dir # <<>> /\ dir[Len(dir)] \notin Sep
                   THEN Append(dir, "\\") ELSE dir
        base == IF dir # <<>> THEN withSep ELSE <<>>
        name == IF options.file_base_name # <<>> THEN options.file_base_name
                ELSE <<"c", "a", "p", "t", "u", "r", "e">>
    IN [basePath |-> WideToAnsi(base \o name),
        enablePreview |-> options.enable_preview,
        queueSize |-> IF options.queue_size > 0 THEN options.queue_size
                      ELSE DefaultQueueSize]

\* path.find_last_of(L"\\/"): the last index holding a separator, 0 for npos.
RECURSIVE FindLastOf(_, _)
FindLastOf(path, i) ==
    IF i = 0 THEN 0
    ELSE IF path[i] \in Sep THEN i ELSE FindLastOf(path, i - 1)

\* The name under which the file system knows a directory: '\\' and '/' both
\* separate components (GetFileAttributesW and CreateDirectoryW accept either).
DirectoryName(path) == [i \in 1..Len(path) |-> IF path[i] \in Sep THEN "/" ELSE path[i]]

\* EnsureDirectories without the recursive call for the parent: only the
\* innermost directory is created.
EnsureDirectories_ParentSkipped(path, fs, deny) ==
    LET pos == FindLastOf(path, Len(path))
        directory == SubSeq(path, 1, pos - 1)
        same == [ok |-> TRUE, fs |-> fs, created |-> <<>>]
    IN IF path = <<>> \/ pos = 0 \/ directory = <<>> THEN same
       ELSE IF DirectoryName(directory) \in fs THEN same
       ELSE IF DirectoryName(directory) \in deny
            THEN [ok |-> FALSE, fs |-> fs, created |-> <<>>]
       ELSE [ok |-> TRUE, fs |-> fs \cup {DirectoryName(directory)},
             created |-> <<DirectoryName(directory)>>]

\* EnsureDirectories(path) on the file system fs (the set of the names of the
\* directories that exist), where CreateDirectoryW is refused for the
\* directories in deny.  Yields the success flag, the new file system and the
\* directories created, in order.
RECURSIVE EnsureDirectories(_, _, _)
EnsureDirectories(path, fs, deny) ==
    LET pos == FindLastOf(path, Len(path))
        directory == SubSeq(path, 1, pos - 1)
        same == [ok |-> TRUE, fs |-> fs, created |-> <<>>]
    IN IF path = <<>> THEN same
       ELSE IF pos = 0 THEN same
       ELSE IF directory = <<>> THEN same
       ELSE IF DirectoryName(directory) \in fs THEN same
       ELSE LET r == EnsureDirectories(directory, fs, deny)
            IN IF ~r.ok THEN r
               ELSE IF DirectoryName(directory) \in r.fs THEN r
               ELSE IF DirectoryName(directory) \in deny
                    THEN [ok |-> FALSE, fs |-> r.fs, created |-> r.created]
               ELSE [ok |-> TRUE, fs |-> r.fs \cup {DirectoryName(directory)},
                     created |-> Append(r.created, DirectoryName(directory))]

IsCapturing == m_state = "Capturing"

NoLocal ==
    [norm |-> NoOptions, thr |-> NoThread, msg |-> "", destroyed |-> <<>>,
     path |-> <<>>, created |-> <<>>, ok |-> TRUE]

Alive(t) == cpc[t] \in {"loop", "get", "fanout", "writer"}

\* ------------------------------------------------------------------- Init

\* The engine with no capture running and the given configuration.
InitWith(device, hwnd, comInitialized, fs) ==
    /\ m_state = "Idle"
    /\ m_mutex = NoOwner
    /\ m_comInitialized = comInitialized
    /\ m_deviceAnsi = device
    /\ m_previewWindow = hwnd
    /\ m_dvInput = "null"
    /\ m_monitor = FALSE
    /\ m_writer = FALSE
    /\ m_queue = FALSE
    /\ m_captureThread = NoThread
    /\ m_options = NoOptions
    /\ m_lastError = ""
    /\ queue = <<>>
    /\ qcap = 0
    /\ dirs = fs
    /\ pc = [c \in Callers |-> "idle"]
    /\ call = [c \in Callers |-> "none"]
    /\ res = [c \in Callers |-> "none"]
    /\ local = [c \in Callers |-> NoLocal]
    /\ cpc = [t \in ThreadIds |-> "none"]
    /\ cframe = [t \in ThreadIds |-> NoFrame]
    /\ cload = [t \in ThreadIds |-> 0]
    /\ produced = 0
    /\ enqueued = <<>>
    /\ writerLog = <<>>
    /\ monitorLog = <<>>
    /\ halted = FALSE

\* The state after the WinDVCaptureEngine constructor.
Init == InitWith(<<>>, 0, FALSE, {})

\* --------------------------------------------------------------- CDVQueue

\* The queue object m_queue points to (class CDVQueue of DShow.h, whose source
\* is not available), by its contract: a FIFO of at most qcap entries; Put
\* waits while the queue is at capacity; Get yields the oldest entry, or false
\* when it is woken with no entry ready; m_load is the number of entries held.
CDVQueue_CanPut == Len(queue) < qcap

CDVQueue_Put(entry) == Append(queue, entry)

CDVQueue_CanGet == queue # <<>>

CDVQueue_Front == Head(queue)

CDVQueue_Pop == Tail(queue)

CDVQueue_Load == Len(queue)

\* ---------------------------------------------------------- small helpers
Goto(c, p) == pc' = [pc EXCEPT ![c] = p]

Begin(c, k) == ~halted /\ pc[c] = "idle" /\ call' = [call EXCEPT ![c] = k]

Result(c, r) == res' = [res EXCEPT ![c] = r]

\* A call that fails through SetError while the caller does not hold m_mutex.
FailUnlocked(c, message) ==
    /\ Goto(c, "seterr")
    /\ local' = [local EXCEPT ![c] = [local[c] EXCEPT !.msg = message]]

\* A call that reaches SetError while the caller still holds m_mutex.
FailLocked(c, message) ==
    /\ m_mutex' = c
    /\ Goto(c, "seterr_locked")
    /\ local' = [local EXCEPT ![c] = [local[c] EXCEPT !.msg = message]]

\* A thread object that has ended and that no pointer refers to any more can
\* be observed by nobody: its identifier is free again.
Collected(threads, handle, locals) ==
    [t \in ThreadIds |->
        IF threads[t] = "exited" /\ handle # t /\ \A c \in Callers : locals[c].thr # t
        THEN "none" ELSE threads[t]]

\* The capture thread t leaves CaptureThread.
Exit(t) == cpc' = Collected([cpc EXCEPT ![t] = "exited"], m_captureThread, local)

\* ------------------------------------------------------------- SetError

\* SetError that takes the lock but does not store the message.
SetError_MessageLost(c) ==
    /\ ~halted
    /\ pc[c] = "seterr"
    /\ m_mutex = NoOwner
    /\ Goto(c, "ret")
    /\ Result(c, "fail")
    /\ UNCHANGED <<engineVars, call, local, threadVars, dataVars, dirs, halted>>

\* SetError called with m_mutex free: lock, store the message, unlock.  The
\* caller of SetError then returns false.
SetError(c) ==
    /\ ~halted
    /\ pc[c] = "seterr"
    /\ m_mutex = NoOwner
    /\ m_lastError' = local[c].msg
    /\ Goto(c, "ret")
    /\ Result(c, "fail")
    /\ UNCHANGED <<m_state, m_mutex, m_comInitialized, m_deviceAnsi, m_previewWindow,
                   m_dvInput, m_monitor, m_writer, m_queue, m_captureThread, m_options,
                   call, local, threadVars, dataVars, dirs, halted>>

\* SetError called by a thread that holds m_mutex: std::lock_guard locks a
\* std::mutex its own thread owns, which is undefined behaviour.  The builds
\* either block forever (SRW lock) ...
SetError_Deadlock(c) ==
    /\ ~halted
    /\ pc[c] = "seterr_locked"
    /\ m_mutex = c
    /\ Goto(c, "deadlocked")
    /\ UNCHANGED <<engineVars, call, res, local, threadVars, dataVars, dirs, halted>>

\* ... or throw std::system_error out of lock(): the exception leaves the call
\* (a handler that catches it calls SetError again), the guards unlock while
\* unwinding, no message is stored and StopCapture is not reached.
SetError_Throws(c) ==
    /\ ~halted
    /\ pc[c] = "seterr_locked"
    /\ m_mutex = c
    /\ m_mutex' = NoOwner
    /\ Goto(c, "ret")
    /\ Result(c, "exception")
    /\ UNCHANGED <<m_state, m_comInitialized, m_deviceAnsi, m_previewWindow,
                   m_dvInput, m_monitor, m_writer, m_queue, m_captureThread, m_options,
                   m_lastError, call, local, threadVars, dataVars, dirs, halted>>

\* The call returns to its caller; a lock_guard still in scope unlocks.
Return(c) ==
    /\ ~halted
    /\ pc[c] = "ret"
    /\ m_mutex' = IF m_mutex = c THEN NoOwner ELSE m_mutex
    /\ pc' = [pc EXCEPT ![c] = "idle"]
    /\ call' = [call EXCEPT ![c] = "none"]
    /\ res' = [res EXCEPT ![c] = "none"]
    /\ local' = [local EXCEPT ![c] = NoLocal]
    /\ UNCHANGED <<m_state, m_comInitialized, m_deviceAnsi, m_previewWindow,
                   m_dvInput, m_monitor, m_writer, m_queue, m_captureThread, m_options,
                   m_lastError, threadVars, dataVars, dirs, halted>>

\* ------------------------------------------------------------ Initialize

\* Initialize(): lock; CoInitializeEx succeeds, or COM is initialized already.
Initialize(c) ==
    /\ Begin(c, "Initialize")
    /\ m_mutex = NoOwner
    /\ m_mutex' = c
    /\ m_comInitialized' = TRUE
    /\ Goto(c, "ret")
    /\ Result(c, "ok")
    /\ UNCHANGED <<m_state, m_deviceAnsi, m_previewWindow,
                   m_dvInput, m_monitor, m_writer, m_queue, m_captureThread, m_options,
                   m_lastError, local, threadVars, dataVars, dirs, halted>>

\* Initialize() as called directly, by SetDevice or by StartCapture (after
\* its device check): CoInitializeEx fails and SetError is called under the
\* guard.
Initialize_CoInitFails(c, k) ==
    /\ Begin(c, k)
    /\ k = "StartCapture" => m_deviceAnsi # <<>>
    /\ m_mutex = NoOwner
    /\ ~m_comInitialized
    /\ FailLocked(c, ErrCoInit)
    /\ UNCHANGED <<m_state, m_comInitialized, m_deviceAnsi, m_previewWindow,
                   m_dvInput, m_monitor, m_writer, m_queue, m_captureThread, m_options,
                   m_lastError, res, threadVars, dataVars, dirs, halted>>

\* ------------------------------------------------------------- SetDevice

\* WindvBridge_SetDevice(nullptr): ReportExternalError, return -1.
WindvBridge_SetDevice_Null(c) ==
    /\ Begin(c, "SetDevice")
    /\ FailUnlocked(c, ErrNullDevice)
    /\ UNCHANGED <<engineVars, res, threadVars, dataVars, dirs, halted>>

\* SetDevice(deviceName): Initialize() succeeds, then lock and the Idle check.
SetDevice(c, deviceName) ==
    /\ Begin(c, "SetDevice")
    /\ m_mutex = NoOwner
    /\ m_comInitialized' = TRUE
    /\ IF m_state # "Idle"
       THEN /\ FailLocked(c, ErrDeviceBusy)
            /\ UNCHANGED <<m_deviceAnsi, res>>
       ELSE /\ m_deviceAnsi' = WideToAnsi(deviceName)
            /\ m_mutex' = c
            /\ Goto(c, "ret")
            /\ Result(c, "ok")
            /\ UNCHANGED local
    /\ UNCHANGED <<m_state, m_previewWindow,
                   m_dvInput, m_monitor, m_writer, m_queue, m_captureThread, m_options,
                   m_lastError, threadVars, dataVars, dirs, halted>>

\* ------------------------------------------------------ SetPreviewWindow
SetPreviewWindow(c, hwnd) ==
    /\ Begin(c, "SetPreviewWindow")
    /\ m_mutex = NoOwner
    /\ IF m_state = "Capturing"
       THEN /\ FailLocked(c, ErrPreviewBusy)
            /\ UNCHANGED <<m_previewWindow, res>>
       ELSE /\ m_previewWindow' = hwnd
            /\ m_mutex' = c
            /\ Goto(c, "ret")
            /\ Result(c, "ok")
            /\ UNCHANGED local
    /\ UNCHANGED <<m_state, m_comInitialized, m_deviceAnsi,
                   m_dvInput, m_monitor, m_writer, m_queue, m_captureThread, m_options,
                   m_lastError, threadVars, dataVars, dirs, halted>>


\* ----------------------------------------------------------- StartCapture

\* WindvBridge_StartCapture with a null options pointer returns -1 at once.
WindvBridge_StartCapture_Null(c) ==
    /\ Begin(c, "StartCapture")
    /\ Goto(c, "ret")
    /\ Result(c, "fail")
    /\ UNCHANGED <<engineVars, local, threadVars, dataVars, dirs, halted>>

\* StartCapture with no device configured (m_deviceAnsi is read without the
\* mutex): SetError, return false.
StartCapture_NoDevice(c) ==
    /\ Begin(c, "StartCapture")
    /\ m_deviceAnsi = <<>>
    /\ FailUnlocked(c, ErrNoDevice)
    /\ UNCHANGED <<engineVars, res, threadVars, dataVars, dirs, halted>>

\* The directories CreateDirectoryW may refuse in one call.
DenyChoices == {{}} \cup {{d} : d \in OutputDirs}

\* StartCapture up to the lock: the device check passes, Initialize()
\* succeeds, Normalize(options), EnsureDirectories(basePath).
StartCapture(c, options, deny) ==
    /\ Begin(c, "StartCapture")
    /\ m_deviceAnsi # <<>>
    /\ m_mutex = NoOwner
    /\ m_comInitialized' = TRUE
    /\ LET normalized == Normalize(options)
           r == EnsureDirectories(AnsiToWide(normalized.basePath), dirs, deny)
       IN /\ dirs' = r.fs
          /\ IF r.ok
             THEN /\ Goto(c, "start_lock")
                  /\ local' = [local EXCEPT ![c] = [local[c] EXCEPT !.norm = normalized]]
             ELSE FailUnlocked(c, ErrDirectory)
    /\ UNCHANGED <<m_state, m_mutex, m_deviceAnsi, m_previewWindow,
                   m_dvInput, m_monitor, m_writer, m_queue, m_captureThread, m_options,
                   m_lastError, res, threadVars, dataVars, halted>>

\* std::lock_guard guard(m_mutex); the state is not Idle: SetError under the
\* guard.
StartCapture_AlreadyRunning(c) ==
    /\ ~halted
    /\ pc[c] = "start_lock"
    /\ m_mutex = NoOwner
    /\ m_state # "Idle"
    /\ FailLocked(c, ErrAlreadyRunning)
    /\ UNCHANGED <<m_state, m_comInitialized, m_deviceAnsi, m_previewWindow,
                   m_dvInput, m_monitor, m_writer, m_queue, m_captureThread, m_options,
                   m_lastError, call, res, threadVars, dataVars, dirs, halted>>

\* The steps of the try block that can throw, in program order.
ConstructionSteps == <<"dvInput", "mediaType", "queue", "monitor", "writer", "run">>

StepIndex(step) == CHOOSE i \in 1..Len(ConstructionSteps) : ConstructionSteps[i] = step

AllSteps == Len(ConstructionSteps) + 1

WantsMonitor(c) == local[c].norm.enablePreview /\ m_previewWindow # 0

\* The assignments of the try block that are completed before step number
\* upTo throws (AllSteps: none throws).
ConstructUpTo(c, upTo) ==
    /\ m_dvInput' = IF upTo > AllSteps THEN "running"
                    ELSE IF upTo > StepIndex("dvInput") THEN "ready" ELSE m_dvInput
    /\ m_queue' = IF upTo > StepIndex("queue") THEN TRUE ELSE m_queue
    /\ queue' = IF upTo > StepIndex("queue") THEN <<>> ELSE queue
    /\ qcap' = IF upTo > StepIndex("queue") THEN local[c].norm.queueSize ELSE qcap
    /\ enqueued' = IF upTo > StepIndex("queue") THEN <<>> ELSE enqueued
    /\ m_monitor' = IF upTo > StepIndex("monitor") /\ WantsMonitor(c) THEN TRUE ELSE m_monitor
    /\ monitorLog' = IF upTo > StepIndex("monitor") /\ WantsMonitor(c) THEN <<>> ELSE monitorLog
    /\ m_writer' = IF upTo > StepIndex("writer") THEN TRUE ELSE m_writer
    /\ writerLog' = IF upTo > StepIndex("writer") THEN <<>> ELSE writerLog
    /\ m_options' = IF upTo > StepIndex("writer") THEN local[c].norm ELSE m_options

\* The Idle check passes; a collaborator constructor (or GetMediaType, or
\* Run) throws: the handler calls SetError, still under the guard.
StartCapture_Throws(c, step) ==
    /\ ~halted
    /\ pc[c] = "start_lock"
    /\ m_mutex = NoOwner
    /\ m_state = "Idle"
    /\ step = "monitor" => WantsMonitor(c)
    /\ ConstructUpTo(c, StepIndex(step))
    /\ FailLocked(c, ErrConstruct)
    /\ UNCHANGED <<m_state, m_comInitialized, m_deviceAnsi, m_previewWindow,
                   m_captureThread, m_lastError, call, res, threadVars,
                   produced, dirs, halted>>

\* The Idle check passes, the collaborators are constructed, Run, the state
\* becomes Capturing, but AfxBeginThread returns null: SetError under the guard.
StartCapture_ThreadFails(c) ==
    /\ ~halted
    /\ pc[c] = "start_lock"
    /\ m_mutex = NoOwner
    /\ m_state = "Idle"
    /\ ConstructUpTo(c, AllSteps + 1)
    /\ m_state' = "Capturing"
    /\ FailLocked(c, ErrThread)
    /\ UNCHANGED <<m_comInitialized, m_deviceAnsi, m_previewWindow,
                   m_captureThread, m_lastError, call, res, threadVars,
                   produced, dirs, halted>>

FreeThreads == {t \in ThreadIds : cpc[t] = "none"}

\* The Idle check passes, the collaborators are constructed, Run, the state
\* becomes Capturing, the capture thread is created and resumed; return true.
StartCapture_Succeeds(c) ==
    /\ ~halted
    /\ pc[c] = "start_lock"
    /\ m_mutex = NoOwner
    /\ m_state = "Idle"
    /\ FreeThreads # {}
    /\ ConstructUpTo(c, AllSteps + 1)
    /\ m_state' = "Capturing"
    /\ LET t == CHOOSE x \in FreeThreads : \A y \in FreeThreads : x <= y
       IN /\ m_captureThread' = t
          /\ cpc' = Collected([cpc EXCEPT ![t] = "loop"], t, local)
    /\ m_mutex' = c
    /\ Goto(c, "ret")
    /\ Result(c, "ok")
    /\ UNCHANGED <<m_comInitialized, m_deviceAnsi, m_previewWindow, m_lastError,
                   call, local, cframe, cload, produced, dirs, halted>>

\* ------------------------------------------------- StopCapture / Shutdown

\* StopCapture without the Idle check: it always starts the teardown.
StopCapture_NoIdleCheck(c, k) ==
    /\ Begin(c, k)
    /\ m_mutex = NoOwner
    /\ m_mutex' = c
    /\ Goto(c, "stop_put")
    /\ m_state' = "Stopping"
    /\ UNCHANGED <<m_comInitialized, m_deviceAnsi, m_previewWindow,
                   m_dvInput, m_monitor, m_writer, m_queue, m_captureThread, m_options,
                   m_lastError, res, local, threadVars, dataVars, dirs, halted>>

\* StopCapture (called directly or as the first statement of Shutdown):
\* lock, return if Idle, otherwise store Stopping.
StopCapture(c, k) ==
    /\ Begin(c, k)
    /\ m_mutex = NoOwner
    /\ m_mutex' = c
    /\ IF m_state = "Idle"
       THEN Goto(c, "stop_ret") /\ UNCHANGED m_state
       ELSE Goto(c, "stop_put") /\ m_state' = "Stopping"
    /\ UNCHANGED <<m_comInitialized, m_deviceAnsi, m_previewWindow,
                   m_dvInput, m_monitor, m_writer, m_queue, m_captureThread, m_options,
                   m_lastError, res, local, threadVars, dataVars, dirs, halted>>

\* m_queue->Put(-1, nullptr, 0) if there is a queue (Put blocks while the
\* queue is at capacity), guard.unlock(), and the unlocked read of
\* m_captureThread.
StopCapture_PutSentinel(c) ==
    /\ ~halted
    /\ pc[c] = "stop_put"
    /\ IF m_queue
       THEN /\ CDVQueue_CanPut
            /\ queue' = CDVQueue_Put(Sentinel)
       ELSE UNCHANGED queue
    /\ m_mutex' = NoOwner
    /\ Goto(c, IF m_captureThread = NoThread THEN "stop_relock" ELSE "stop_wait")
    /\ local' = [local EXCEPT ![c] = [local[c] EXCEPT !.thr = m_captureThread]]
    /\ UNCHANGED <<m_state, m_comInitialized, m_deviceAnsi, m_previewWindow,
                   m_dvInput, m_monitor, m_writer, m_queue, m_captureThread, m_options,
                   m_lastError, call, res, threadVars,
                   qcap, produced, enqueued, writerLog, monitorLog, dirs, halted>>

\* WaitForSingleObject returns once the thread has ended; delete
\* m_captureThread; m_captureThread = nullptr.  Every other copy of the
\* pointer dangles from now on.
StopCapture_Join(c) ==
    /\ ~halted
    /\ pc[c] = "stop_wait"
    /\ local[c].thr \in ThreadIds
    /\ cpc[local[c].thr] = "exited"
    /\ m_captureThread' = NoThread
    /\ local' = [x \in Callers |->
                    IF x = c THEN [local[x] EXCEPT !.thr = NoThread]
                    ELSE IF local[x].thr = local[c].thr
                         THEN [local[x] EXCEPT !.thr = Dangling]
                         ELSE local[x]]
    /\ cpc' = Collected([cpc EXCEPT ![local[c].thr] = "none"], NoThread, local')
    /\ cframe' = [cframe EXCEPT ![local[c].thr] = NoFrame]
    /\ Goto(c, "stop_relock")
    /\ UNCHANGED <<m_state, m_mutex, m_comInitialized, m_deviceAnsi, m_previewWindow,
                   m_dvInput, m_monitor, m_writer, m_queue, m_options, m_lastError,
                   call, res, cload, dataVars, dirs, halted>>

\* The CWinThread object was deleted by another StopCapture in the meantime:
\* the wait and the second delete use freed memory.  Either the process dies
\* or the call goes on and stores nullptr.
StopCapture_JoinDangling(c, dies) ==
    /\ ~halted
    /\ pc[c] = "stop_wait"
    /\ local[c].thr = Dangling
    /\ IF dies
       THEN halted' = TRUE /\ UNCHANGED <<m_captureThread, pc, local, cpc>>
       ELSE /\ m_captureThread' = NoThread
            /\ local' = [local EXCEPT ![c] = [local[c] EXCEPT !.thr = NoThread]]
            /\ cpc' = Collected(cpc, NoThread, local')
            /\ Goto(c, "stop_relock")
            /\ UNCHANGED halted
    /\ UNCHANGED <<m_state, m_mutex, m_comInitialized, m_deviceAnsi, m_previewWindow,
                   m_dvInput, m_monitor, m_writer, m_queue, m_options, m_lastError,
                   call, res, cframe, cload, dataVars, dirs>>

\* The order in which the teardown visits the collaborator pointers.
TeardownOrder == <<"dvInput", "monitor", "writer", "queue">>

\* The pointer of that name is non-null.
IsPresent(name) ==
    CASE name = "dvInput" -> m_dvInput # "null"
      [] name = "monitor" -> m_monitor
      [] name = "writer" -> m_writer
      [] name = "queue" -> m_queue

\* guard.lock(); stop and delete m_dvInput, delete m_monitor, m_writer and
\* m_queue, each if non-null.  The call keeps the order of the deletions.
StopCapture_Teardown(c) ==
    /\ ~halted
    /\ pc[c] = "stop_relock"
    /\ m_mutex = NoOwner
    /\ m_mutex' = c
    /\ m_dvInput' = "null"
    /\ m_monitor' = FALSE
    /\ m_writer' = FALSE
    /\ m_queue' = FALSE
    /\ queue' = <<>>
    /\ qcap' = 0
    /\ enqueued' = <<>>
    /\ writerLog' = <<>>
    /\ monitorLog' = <<>>
    /\ local' = [local EXCEPT ![c] =
                    [local[c] EXCEPT !.destroyed = SelectSeq(TeardownOrder, IsPresent)]]
    /\ Goto(c, "stop_idle")
    /\ UNCHANGED <<m_state, m_comInitialized, m_deviceAnsi, m_previewWindow,
                   m_captureThread, m_options, m_lastError, call, res, threadVars,
                   produced, dirs, halted>>

\* m_state.store(State::Idle), still under the lock.
StopCapture_StoreIdle(c) ==
    /\ ~halted
    /\ pc[c] = "stop_idle"
    /\ m_state' = "Idle"
    /\ Goto(c, "stop_ret")
    /\ UNCHANGED <<m_mutex, m_comInitialized, m_deviceAnsi, m_previewWindow,
                   m_dvInput, m_monitor, m_writer, m_queue, m_captureThread, m_options,
                   m_lastError, call, res, local, threadVars, dataVars, dirs, halted>>

\* StopCapture returns (the unique_lock unlocks).  Shutdown goes on.
StopCapture_Return(c) ==
    /\ ~halted
    /\ pc[c] = "stop_ret"
    /\ m_mutex' = NoOwner
    /\ IF call[c] = "Shutdown"
       THEN Goto(c, "sh_uninit") /\ UNCHANGED <<call, local>>
       ELSE /\ pc' = [pc EXCEPT ![c] = "idle"]
            /\ call' = [call EXCEPT ![c] = "none"]
            /\ local' = [local EXCEPT ![c] = NoLocal]
    /\ UNCHANGED <<m_state, m_comInitialized, m_deviceAnsi, m_previewWindow,
                   m_dvInput, m_monitor, m_writer, m_queue, m_captureThread, m_options,
                   m_lastError, res, threadVars, dataVars, dirs, halted>>

\* Shutdown after StopCapture: lock, CoUninitialize if COM was initialized.
Shutdown(c) ==
    /\ ~halted
    /\ pc[c] = "sh_uninit"
    /\ m_mutex = NoOwner
    /\ m_mutex' = c
    /\ m_comInitialized' = FALSE
    /\ Goto(c, "ret")
    /\ Result(c, "ok")
    /\ UNCHANGED <<m_state, m_deviceAnsi, m_previewWindow,
                   m_dvInput, m_monitor, m_writer, m_queue, m_captureThread, m_options,
                   m_lastError, call, local, threadVars, dataVars, dirs, halted>>

\* ------------------------------------------------------------ HandleFrame

\* The frame callback of the capture source (one producer thread, active
\* between Run and Stop): returns if there is no queue, else Put, which
\* blocks while the queue is at capacity.
HandleFrame ==
    /\ ~halted
    /\ m_dvInput = "running"
    /\ produced < MaxFrames
    /\ IF ~m_queue
       THEN UNCHANGED <<queue, enqueued>>
       ELSE /\ CDVQueue_CanPut
            /\ queue' = CDVQueue_Put(produced + 1)
            /\ enqueued' = Append(enqueued, produced + 1)
    /\ produced' = produced + 1
    /\ UNCHANGED <<engineVars, callerVars, threadVars, qcap, writerLog, monitorLog,
                   dirs, halted>>

\* ---------------------------------------------------------- CaptureThread

\* while (m_state.load() == State::Capturing)
LoopCondition == m_state = "Capturing"

\* The loop without the null-buffer check: no entry ends it.
IsNullBuffer_CheckMissing(entry) == FALSE

\* if (!buffer) break;
IsNullBuffer(entry) == entry = Sentinel

\* if (m_monitor && m_options.enablePreview)
\*     if (m_queue->m_load < (m_options.queueSize / 2))
PreviewCondition ==
    /\ m_monitor
    /\ m_options.enablePreview
    /\ CDVQueue_Load < (m_options.queueSize \div 2)

\* if (m_writer)
WriterCondition == m_writer

CaptureThread_Loop(t) ==
    /\ ~halted
    /\ cpc[t] = "loop"
    /\ IF LoopCondition THEN cpc' = [cpc EXCEPT ![t] = "get"] ELSE Exit(t)
    /\ UNCHANGED <<engineVars, callerVars, cframe, cload, dataVars, dirs, halted>>

\* m_queue->Get returns true with the oldest entry.
CaptureThread_Get(t) ==
    /\ ~halted
    /\ cpc[t] = "get"
    /\ m_queue
    /\ CDVQueue_CanGet
    /\ cframe' = [cframe EXCEPT ![t] = CDVQueue_Front]
    /\ queue' = CDVQueue_Pop
    /\ cpc' = [cpc EXCEPT ![t] = "fanout"]
    /\ UNCHANGED <<engineVars, callerVars, cload, qcap, produced, enqueued,
                   writerLog, monitorLog, dirs, halted>>

\* m_queue->Get returns false (a wake with no entry ready): continue.
CaptureThread_GetFalse(t) ==
    /\ ~halted
    /\ cpc[t] = "get"
    /\ m_queue
    /\ ~CDVQueue_CanGet
    /\ cpc' = [cpc EXCEPT ![t] = "loop"]
    /\ UNCHANGED <<engineVars, callerVars, cframe, cload, dataVars, dirs, halted>>

\* m_queue is null (the queue was deleted under the running thread): the call
\* through the null pointer is undefined.  The process dies, or the call
\* yields false, or it yields a null buffer.
GetOutcomes == {"dies", "false", "null"}

CaptureThread_GetNoQueue(t, outcome) ==
    /\ ~halted
    /\ cpc[t] = "get"
    /\ ~m_queue
    /\ halted' = (outcome = "dies")
    /\ IF outcome = "dies" THEN UNCHANGED cpc
       ELSE IF outcome = "false" THEN cpc' = [cpc EXCEPT ![t] = "loop"]
       ELSE Exit(t)
    /\ UNCHANGED <<engineVars, callerVars, cframe, cload, dataVars, dirs>>

\* The null-buffer check and the preview part of the fan-out.
CaptureThread_Fanout(t) ==
    /\ ~halted
    /\ cpc[t] = "fanout"
    /\ IF IsNullBuffer(cframe[t])
       THEN /\ Exit(t)
            /\ UNCHANGED <<monitorLog, cload>>
       ELSE /\ cpc' = [cpc EXCEPT ![t] = "writer"]
            /\ cload' = [cload EXCEPT ![t] = CDVQueue_Load]
            /\ monitorLog' = IF PreviewCondition
                             THEN Append(monitorLog, cframe[t]) ELSE monitorLog
    /\ UNCHANGED <<engineVars, callerVars, cframe, queue, qcap, produced, enqueued,
                   writerLog, dirs, halted>>

\* The writer part of the fan-out, then back to the loop condition.
CaptureThread_Writer(t) ==
    /\ ~halted
    /\ cpc[t] = "writer"
    /\ writerLog' = IF WriterCondition THEN Append(writerLog, cframe[t]) ELSE writerLog
    /\ cpc' = [cpc EXCEPT ![t] = "loop"]
    /\ cframe' = [cframe EXCEPT ![t] = NoFrame]
    /\ cload' = [cload EXCEPT ![t] = 0]
    /\ UNCHANGED <<engineVars, callerVars, queue, qcap, produced, enqueued,
                   monitorLog, dirs, halted>>

\* One controller thread makes the calls, one after the other.
Controller == CHOOSE c \in Callers : \A d \in Callers : c <= d

\* ---------------------------------------------- EnsureDirectories alone

\* The paths EnsureDirectories is applied to: up to MaxPathLen characters,
\* directory and file names made of one letter, either separator, no two
\* separators in a row.
PathChars == {"a"} \cup Sep

Paths ==
    {p \in UNION {[1..n -> PathChars] : n \in 1..MaxPathLen} :
        \A i \in 1..(Len(p) - 1) : ~(p[i] \in Sep /\ p[i + 1] \in Sep)}

\* One call EnsureDirectories(path) on a file system that refuses no creation;
\* the caller keeps the path, the result and the directories created.
EnsureDirectories_Call(c, path) ==
    /\ ~halted
    /\ pc[c] = "idle"
    /\ LET r == EnsureDirectories(path, dirs, {})
       IN /\ dirs' = r.fs
          /\ local' = [local EXCEPT ![c] =
                          [NoLocal EXCEPT !.path = path, !.created = r.created, !.ok = r.ok]]
    /\ UNCHANGED <<engineVars, pc, call, res, threadVars, dataVars, halted>>

NextDirectories == \E path \in Paths : EnsureDirectories_Call(Controller, path)

SpecDirectories == Init /\ [][NextDirectories]_vars

\* ------------------------------------------------------------------- Next
CallNames == {"Initialize", "SetDevice", "StartCapture"}

\* The steps of a caller that other callers cannot influence the choice of:
\* the whole control surface, called by one thread at a time.
CallerStep(c) ==
    \/ Initialize(c)
    \/ \E k \in CallNames : Initialize_CoInitFails(c, k)
    \/ WindvBridge_SetDevice_Null(c)
    \/ \E deviceName \in DeviceNames : SetDevice(c, deviceName)
    \/ \E hwnd \in Hwnds : SetPreviewWindow(c, hwnd)
    \/ WindvBridge_StartCapture_Null(c)
    \/ StartCapture_NoDevice(c)
    \/ \E options \in OptionValues, deny \in DenyChoices : StartCapture(c, options, deny)
    \/ StartCapture_AlreadyRunning(c)
    \/ \E i \in 1..Len(ConstructionSteps) : StartCapture_Throws(c, ConstructionSteps[i])
    \/ StartCapture_ThreadFails(c)
    \/ StartCapture_Succeeds(c)
    \/ \E k \in {"StopCapture", "Shutdown"} : StopCapture(c, k)
    \/ StopCapture_PutSentinel(c)
    \/ StopCapture_Join(c)
    \/ StopCapture_Teardown(c)
    \/ StopCapture_StoreIdle(c)
    \/ StopCapture_Return(c)
    \/ Shutdown(c)
    \/ SetError(c)
    \/ SetError_Deadlock(c)
    \/ SetError_Throws(c)
    \/ Return(c)

ThreadStep(t) ==
    \/ CaptureThread_Loop(t)
    \/ CaptureThread_Get(t)
    \/ CaptureThread_GetFalse(t)
    \/ CaptureThread_Fanout(t)
    \/ CaptureThread_Writer(t)

Next ==
    \/ CallerStep(Controller)
    \/ \E t \in ThreadIds : ThreadStep(t)
    \/ HandleFrame

Spec == Init /\ [][Next]_vars

\* Scheduling: a thread that can take a step of a call in progress, the
\* capture thread and the frame callback are not starved.  Starting a new call
\* is the caller's free choice.
InProgress(c) ==
    \/ StartCapture_AlreadyRunning(c)
    \/ StartCapture_Succeeds(c)
    \/ StopCapture_PutSentinel(c)
    \/ StopCapture_Join(c)
    \/ StopCapture_Teardown(c)
    \/ StopCapture_StoreIdle(c)
    \/ StopCapture_Return(c)
    \/ Shutdown(c)
    \/ SetError(c)
    \/ Return(c)

Fairness ==
    /\ WF_vars(InProgress(Controller))
    /\ \A t \in ThreadIds : WF_vars(ThreadStep(t))
    /\ WF_vars(HandleFrame)

FairSpec == Spec /\ Fairness

\* Several caller threads call StartCapture and StopCapture concurrently on a
\* configured engine (device set, preview window set, COM initialized, output
\* directory present).
ConcurrentStep(c) ==
    \/ \E options \in OptionValues : StartCapture(c, options, {})
    \/ StartCapture_AlreadyRunning(c)
    \/ StartCapture_Succeeds(c)
    \/ StopCapture(c, "StopCapture")
    \/ StopCapture_PutSentinel(c)
    \/ StopCapture_Join(c)
    \/ \E dies \in BOOLEAN : StopCapture_JoinDangling(c, dies)
    \/ StopCapture_Teardown(c)
    \/ StopCapture_StoreIdle(c)
    \/ StopCapture_Return(c)
    \/ SetError_Deadlock(c)
    \/ SetError_Throws(c)
    \/ Return(c)

ConcurrentThreadStep(t) ==
    \/ ThreadStep(t)
    \/ \E outcome \in GetOutcomes : CaptureThread_GetNoQueue(t, outcome)

InitConcurrent == InitWith(<<"d">>, 1, TRUE, OutputDirs)

NextConcurrent ==
    \/ \E c \in Callers : ConcurrentStep(c)
    \/ \E t \in ThreadIds : ConcurrentThreadStep(t)
    \/ HandleFrame

SpecConcurrent == InitConcurrent /\ [][NextConcurrent]_vars

\* ----------------------------------------------------------------- claims

Collaborators == <<m_dvInput # "null", m_queue, m_monitor, m_writer>>

NoCollaborators == Collaborators = <<FALSE, FALSE, FALSE, FALSE>>

AliveThreads == {t \in ThreadIds : Alive(t)}

\* sub is obtained from seq by deleting entries (order and multiplicity kept).
RECURSIVE IsSubsequence(_, _)
IsSubsequence(sub, seq) ==
    IF sub = <<>> THEN TRUE
    ELSE IF seq = <<>> THEN FALSE
    ELSE IF Head(sub) = Head(seq) THEN IsSubsequence(Tail(sub), Tail(seq))
    ELSE IsSubsequence(sub, Tail(seq))

\* C1: at the moment any StopCapture call returns, IsCapturing() is false and
\* no consumer thread is alive, for every interleaving of StartCapture and
\* StopCapture calls from one or several caller threads.
C1_StopLeavesNothingRunning ==
    \A c \in Callers :
        pc[c] = "stop_ret" => ~IsCapturing /\ AliveThreads = {}

C3_FailedStartLeavesIdle ==
    \A c \in Callers :
        (pc[c] = "ret" /\ call[c] = "StartCapture"
                       /\ local[c].msg \in {ErrConstruct, ErrThread})
            => res[c] = "fail" /\ NoCollaborators /\ m_state = "Idle"

\* C4: a StartCapture made while the state is not Idle returns failure with
\* the "capture already running" error recorded.
C4_BusyStartRecordsError ==
    \A c \in Callers :
        (pc[c] = "ret" /\ call[c] = "StartCapture" /\ local[c].msg = ErrAlreadyRunning)
            => res[c] = "fail" /\ m_lastError = ErrAlreadyRunning

\* C5: at most one consumer thread exists at any time, and a StartCapture
\* that passes the Idle check constructs collaborators only when none of a
\* previous session is present.
C5_OneSessionAtATime ==
    [][ /\ Cardinality(AliveThreads') <= 1
        /\ \A c \in Callers :
              (pc[c] = "start_lock" /\ pc'[c] # "start_lock" /\ m_state = "Idle")
                  => NoCollaborators ]_vars

\* C6: once StopCapture has moved the state from Capturing to Stopping, the
\* consumer loop makes no further HandleFrame call on the monitor or on the
\* writer.
C6_NoDeliveryWhileStopping ==
    [][ m_state = "Stopping"
            => /\ Len(writerLog') <= Len(writerLog)
               /\ Len(monitorLog') <= Len(monitorLog) ]_vars

\* C7: the sentinel entry is never forwarded to the preview renderer or to
\* the writer: a consumer loop that dequeued it calls neither sink.
C7_SentinelNeverForwarded ==
    /\ \A i \in 1..Len(writerLog) : writerLog[i] # Sentinel
    /\ \A i \in 1..Len(monitorLog) : monitorLog[i] # Sentinel
    /\ \A t \in ThreadIds : cpc[t] = "writer" => cframe[t] # Sentinel

\* A consumer loop dequeued the sentinel and left CaptureThread.
C7_Witness ==
    \E t \in ThreadIds : cpc[t] = "exited" /\ cframe[t] = Sentinel

\* C8: within one session the writer receives the frames in the order the
\* producer enqueued them, none twice, and the preview renderer receives a
\* subsequence of that order.
C8_SinkOrder ==
    /\ IsSubsequence(writerLog, enqueued)
    /\ IsSubsequence(monitorLog, enqueued)

\* C9: every frame enqueued during a session has been passed to the writer
\* exactly once by the time the consumer loop has ended and StopCapture joins
\* it, including the frames that were in the queue when StopCapture was called.
C9_EveryFrameConsumed ==
    \A c \in Callers :
        (pc[c] = "stop_wait" /\ local[c].thr \in ThreadIds
                             /\ cpc[local[c].thr] = "exited")
            => writerLog = enqueued

\* C10: for every dequeued real frame the consumer loop skips the preview
\* renderer whenever the queue load is at least half of the session's queue
\* capacity, and still delivers that frame to the writer.
C10_PreviewSkippedWriterServed ==
    [][ \A t \in ThreadIds :
          /\ (cpc[t] = "fanout" /\ cpc'[t] = "writer" /\ 2 * CDVQueue_Load >= qcap)
                => monitorLog' = monitorLog
          /\ (cpc[t] = "writer" /\ cpc'[t] # "writer")
                => writerLog' = Append(writerLog, cframe[t]) ]_vars

\* C11: SetDevice and SetPreviewWindow called while the state is Capturing
\* return failure with their "busy" error recorded, and leave the stored
\* device, the stored preview handle and the state unchanged.
C11_BusyConfigurationRefused ==
    [][ \A c \in Callers :
          /\ (pc'[c] = "ret" /\ call'[c] \in {"SetDevice", "SetPreviewWindow"}
                             /\ local'[c].msg \in {ErrDeviceBusy, ErrPreviewBusy})
                => res'[c] = "fail" /\ m_lastError' = local'[c].msg
          /\ (pc[c] = "idle" /\ call'[c] \in {"SetDevice", "SetPreviewWindow"}
                             /\ m_state = "Capturing")
                => /\ m_deviceAnsi' = m_deviceAnsi
                   /\ m_previewWindow' = m_previewWindow
                   /\ m_state' = m_state ]_vars

\* C12: StartCapture called when no device has been configured returns
\* failure, records the last error that names the missing device, constructs
\* no collaborator, spawns no thread and leaves the state Idle.
C12_NoDeviceStartRefused ==
    [][ \A c \in Callers :
          (pc'[c] \in {"seterr", "ret"} /\ call'[c] = "StartCapture"
                                        /\ local'[c].msg = ErrNoDevice)
             => /\ pc'[c] = "ret" => (res'[c] = "fail" /\ m_lastError' = ErrNoDevice)
                /\ Collaborators' = Collaborators
                /\ m_captureThread' = m_captureThread
                /\ cpc' = cpc
                /\ m_state' = "Idle" ]_vars

\* A StartCapture with no device configured has returned failure.
C12_Witness ==
    \E c \in Callers :
        /\ pc[c] = "ret" /\ call[c] = "StartCapture" /\ res[c] = "fail"
        /\ local[c].msg = ErrNoDevice /\ m_lastError = ErrNoDevice

\* C13: SetDevice called with an empty or a missing (null) device name is
\* rejected with failure and has no side effects: the stored device and the
\* COM initialization are as before the call.
C13_EmptyDeviceRejected ==
    [][ \A c \in Callers :
          (SetDevice(c, <<>>) \/ WindvBridge_SetDevice_Null(c))
             => /\ res'[c] # "ok"
                /\ m_deviceAnsi' = m_deviceAnsi
                /\ m_comInitialized' = m_comInitialized ]_vars

\* What a StopCapture on an Idle session must leave alone.
StopObservables ==
    <<m_state, Collaborators, m_captureThread, cpc, queue, m_deviceAnsi,
      m_previewWindow, m_options, m_comInitialized, m_lastError, dirs>>

\* C14: StopCapture called while the state is Idle is a no-op: it goes
\* straight to its return, enqueues no sentinel, waits on no thread, touches
\* no collaborator and leaves state, configuration and last error unchanged.
C14_StopOnIdleIsNoOp ==
    [][ \A c \in Callers :
          /\ (pc[c] = "idle" /\ call'[c] \in {"StopCapture", "Shutdown"}
                             /\ m_state = "Idle")
                => pc'[c] = "stop_ret" /\ StopObservables' = StopObservables
          /\ (pc[c] = "stop_ret" /\ pc'[c] # "stop_ret")
                => StopObservables' = StopObservables ]_vars

\* A StopCapture is at its return although no capture was ever started (no
\* output directory has been created yet).
C14_Witness ==
    \E c \in Callers :
        pc[c] = "stop_ret" /\ call[c] = "StopCapture" /\ m_state = "Idle" /\ dirs = {}

\* The collaborators in the order StartCapture constructs them.
ConstructionOrder ==
    SelectSeq(ConstructionSteps, LAMBDA s : s \in {"dvInput", "queue", "monitor", "writer"})

Reverse(seq) == [i \in 1..Len(seq) |-> seq[Len(seq) + 1 - i]]

\* C15: StopCapture tears down in this order: the consumer thread is joined,
\* then the collaborators are destroyed in the reverse of the order in which
\* StartCapture constructed them, then the state is set to Idle.
C15_TeardownOrder ==
    \A c \in Callers :
        pc[c] = "stop_idle"
            => /\ AliveThreads = {}
               /\ m_state = "Stopping"
               /\ LET gone == {local[c].destroyed[i] : i \in 1..Len(local[c].destroyed)}
                  IN local[c].destroyed =
                         SelectSeq(Reverse(ConstructionOrder), LAMBDA s : s \in gone)

\* C16: the only changes of the session state are Idle to Capturing (by a
\* StartCapture that succeeds), Capturing to Stopping and Stopping to Idle,
\* and the state is set to Idle only when no consumer thread is alive and no
\* collaborator exists.
C16_StateTransitions ==
    [][ m_state' # m_state
          => /\ <<m_state, m_state'>> \in {<<"Idle", "Capturing">>,
                                           <<"Capturing", "Stopping">>,
                                           <<"Stopping", "Idle">>}
             /\ m_state' = "Capturing"
                   => \E c \in Callers : pc'[c] = "ret" /\ res'[c] = "ok"
                                                        /\ call'[c] = "StartCapture"
             /\ m_state' = "Idle" => (AliveThreads' = {} /\ NoCollaborators') ]_vars

\* C17: with concurrent StopCapture calls the consumer-thread handle is
\* waited on and deleted exactly once (no call waits on a handle another call
\* has deleted), and no collaborator is destroyed while a consumer thread can
\* still use it.
C17_NoUnguardedSharing ==
    [][ \A c \in Callers :
          /\ ~(pc'[c] = "stop_wait" /\ local'[c].thr = Dangling)
          /\ (pc[c] = "stop_relock" /\ pc'[c] = "stop_idle")
                => (AliveThreads = {} \/ local'[c].destroyed = <<>>) ]_vars

\* The ancestor directories of path, outermost first.
Ancestors(path) ==
    LET cuts == SelectSeq([i \in 1..Len(path) |-> i],
                          LAMBDA i : i > 1 /\ path[i] \in Sep)
    IN [k \in 1..Len(cuts) |-> DirectoryName(SubSeq(path, 1, cuts[k] - 1))]

MissingAncestors(path, fs) == SelectSeq(Ancestors(path), LAMBDA d : d \notin fs)

\* C18: EnsureDirectories, for a path whose N innermost ancestor directories
\* are missing, creates exactly those N directories, each once and from the
\* outermost to the innermost, and returns success; invoked again on the
\* same path it creates nothing and returns success.
C18_EnsureDirectoriesCreatesMissing ==
    [][ \A c \in Callers :
          (local'[c].path # <<>> /\ EnsureDirectories_Call(c, local'[c].path))
             => LET path == local'[c].path
                    missing == MissingAncestors(path, dirs)
                    again == EnsureDirectories(path, dirs', {})
                IN /\ local'[c].ok
                   /\ local'[c].created = missing
                   /\ dirs' = dirs \cup {missing[i] : i \in 1..Len(missing)}
                   /\ again.ok /\ again.created = <<>> /\ again.fs = dirs' ]_vars

\* A call has created two nested directories.
C18_Witness ==
    \E c \in Callers : local[c].ok /\ Len(local[c].created) = 2

\* C19: no engine operation locks m_mutex on a thread that already holds it:
\* no call reaches SetError's lock_guard while its own thread owns the mutex,
\* and no control-surface call is blocked on its own lock.
C19_NoSelfRelock ==
    \A c \in Callers : /\ ~(pc[c] = "seterr_locked" /\ m_mutex = c)
                       /\ pc[c] # "deadlocked"

\* C20: whenever the state flag reads Capturing, the capture source, the
\* queue and the writer of the session exist.
C20_CapturingHasCollaborators ==
    m_state = "Capturing" => (m_dvInput # "null" /\ m_queue /\ m_writer)

====
